---- MODULE Spec2Model ----
(***************************************************************************)
(* A model of find_duplicates.py: the walk over a directory tree, the      *)
(* path filters, the MD5 digest, the first-seen index and the relocation   *)
(* of later files with an already-seen digest into the duplicate folder.   *)
(*                                                                         *)
(* Strings of the program (paths, file names) are sequences of one-        *)
(* character strings, so that lower(), find(), startswith(), endswith(),   *)
(* split(), Path.stem and Path.suffix are computed as the code computes    *)
(* them.  A file path is the record [dir, name], Path(root) / file.        *)
(***************************************************************************)
EXTENDS Integers, Sequences, FiniteSets, TLC

(***************************************************************************)
(* Bounds of the model.                                                    *)
(***************************************************************************)
\* the largest number of files the tree and the duplicate folder hold at start
MaxFiles == 2
\* the largest number of I/O errors (open, read, stat, move) met in one run
MaxErrors == 1

(***************************************************************************)
(* String helpers.                                                         *)
(***************************************************************************)
UpperAlpha ==
  <<"A","B","C","D","E","F","G","H","I","J","K","L","M",
    "N","O","P","Q","R","S","T","U","V","W","X","Y","Z">>

LowerAlpha ==
  <<"a","b","c","d","e","f","g","h","i","j","k","l","m",
    "n","o","p","q","r","s","t","u","v","w","x","y","z">>

\* the other characters of the paths of the model
OtherChars == {"0","1","2","3","4","5","6","7","8","9"," ",".","_","~","/","(",")"}

Chars == {UpperAlpha[i] : i \in 1..26} \cup {LowerAlpha[i] : i \in 1..26} \cup OtherChars

\* str.lower() on one character
LowerChar ==
  [c \in Chars |->
     IF \E i \in 1..26 : UpperAlpha[i] = c
     THEN LowerAlpha[CHOOSE i \in 1..26 : UpperAlpha[i] = c]
     ELSE c]

\* str.lower()
Lower(s) == [i \in 1..Len(s) |-> LowerChar[s[i]]]

\* str.find(sub) # -1
Contains(s, sub) ==
  \E i \in 1..(Len(s) - Len(sub) + 1) : SubSeq(s, i, i + Len(sub) - 1) = sub

\* str.startswith(prefix)
StartsWith(s, prefix) ==
  /\ Len(prefix) <= Len(s)
  /\ SubSeq(s, 1, Len(prefix)) = prefix

\* str.endswith(suffix)
EndsWith(s, suffix) ==
  /\ Len(suffix) <= Len(s)
  /\ SubSeq(s, Len(s) - Len(suffix) + 1, Len(s)) = suffix

\* os.sep
Sep == "/"

\* index of the last occurrence of character c in s, 0 when there is none
RFind(s, c) ==
  IF \E i \in 1..Len(s) : s[i] = c
  THEN CHOOSE i \in 1..Len(s) : s[i] = c /\ \A j \in (i+1)..Len(s) : s[j] # c
  ELSE 0

\* str.split(sep): the segments between the separators
RECURSIVE Split(_, _)
Split(s, c) ==
  IF \E i \in 1..Len(s) : s[i] = c
  THEN LET i == CHOOSE k \in 1..Len(s) : s[k] = c /\ \A j \in 1..(k-1) : s[j] # c
       IN  <<SubSeq(s, 1, i - 1)>> \o Split(SubSeq(s, i + 1, Len(s)), c)
  ELSE <<s>>

\* str(n) for a natural number
DigitChars == <<"0","1","2","3","4","5","6","7","8","9">>

RECURSIVE Str(_)
Str(n) ==
  IF n < 10 THEN <<DigitChars[n + 1]>>
  ELSE Str(n \div 10) \o <<DigitChars[(n % 10) + 1]>>

\* Path.stem and Path.suffix of a file name
DotAt(name) == RFind(name, ".")

HasSuffix(name) == 1 < DotAt(name) /\ DotAt(name) < Len(name)

Suffix(name) ==
  IF HasSuffix(name) THEN SubSeq(name, DotAt(name), Len(name)) ELSE <<>>

Stem(name) ==
  IF HasSuffix(name) THEN SubSeq(name, 1, DotAt(name) - 1) ELSE name

\* Path.parent and Path.name of a directory path
Parent(p) ==
  IF RFind(p, Sep) <= 1 THEN <<Sep>> ELSE SubSeq(p, 1, RFind(p, Sep) - 1)

BaseName(p) == SubSeq(p, RFind(p, Sep) + 1, Len(p))

\* str(Path(dir) / name)
PathStr(fp) ==
  IF fp.dir = <<Sep>> THEN fp.dir \o fp.name ELSE fp.dir \o <<Sep>> \o fp.name

\* the orders in which a listing can return a finite set
Orders(S) ==
  {s \in [1..Cardinality(S) -> S] : \A i, j \in 1..Cardinality(S) : s[i] = s[j] => i = j}

(***************************************************************************)
(* The directory tree and the files of the model.                          *)
(***************************************************************************)
FsRoot == <<Sep>>
Directory == <<"/","r">>
DirSub == Directory \o <<"/","s","u","b">>
DirGit == Directory \o <<"/",".","g","i","t">>
DirPF == Directory \o <<"/","P","r","o","g","r","a","m"," ","F","i","l","e","s">>
DirPFApp == DirPF \o <<"/","a","p","p">>
DupOutside == <<"/","d">>
DupInside == Directory \o <<"/","d","u","p","s">>
DupNoParent == <<"/","x","/","d">>

\* a directory and the directories above it
Ancestors(d) ==
  {d, FsRoot} \cup {SubSeq(d, 1, i - 1) : i \in {j \in 2..Len(d) : d[j] = Sep}}

\* the directories of a tree that holds the files of the set present
TreeDirs(present) ==
  {FsRoot, Directory} \cup UNION {Ancestors(p.dir) : p \in present}

DupChoices == {DupOutside, DupInside, DupNoParent}

NameA == <<"a",".","t","x","t">>
NameUpperA == <<"A",".","t","x","t">>
NameA1 == <<"a","_","1",".","t","x","t">>
NameHidden == <<".","h">>
NameIni == <<"x",".","i","n","i">>

\* the places where a file may be at the start of a run
TreeSlots ==
  { [dir |-> Directory, name |-> NameA],
    [dir |-> Directory, name |-> NameHidden],
    [dir |-> Directory, name |-> NameIni],
    [dir |-> DirSub, name |-> NameA],
    [dir |-> DirSub, name |-> NameUpperA],
    [dir |-> DirGit, name |-> NameA],
    [dir |-> DirPFApp, name |-> NameA] }

\* what a duplicate folder outside the tree may hold at the start of a run
DupFills(d) ==
  { {}, {[dir |-> d, name |-> NameA]},
    {[dir |-> d, name |-> NameA], [dir |-> d, name |-> NameA1]} }

\* the file contents of the model: the empty file and a file of one byte
Contents == {"", "A"}

(***************************************************************************)
(* hashlib.md5(content).hexdigest() for the contents of the model.         *)
(***************************************************************************)
MD5(content) ==
  CASE content = ""    -> "d41d8cd98f00b204e9800998ecf8427e"
    [] content = "A"   -> "7fc56270e7a70fa81a5935b72eacbe29"
    [] content = "B"   -> "9d5ed678fe57bcca610140957afab571"
    [] content = "AAA" -> "e1faffb3e614e6c2fba74296962386b7"

(***************************************************************************)
(* The state.                                                              *)
(***************************************************************************)
VARIABLES
  fs,               \* the files: a function from file path to content
  dirs,             \* the directories that exist
  duplicate_folder, \* the duplicate_folder argument
  pc,               \* "start", "walk", "done" or "raised"
  exc,              \* the place an uncaught exception was raised at, or "none"
  stack,            \* os.walk: the directories still to be listed
  root,             \* os.walk: the directory being processed
  files,            \* os.walk: the file names of root not processed yet
  file_hashes,      \* digest -> path of the first file seen with it
  duplicate_info,   \* the list of duplicate records
  fp,               \* the file the handle of the open probe is open on
  log,              \* the events logged, one per file of the traversal
  io_errors,        \* the number of I/O errors met so far
  fs0               \* history: the files at the start of the run

vars == <<fs, dirs, duplicate_folder, pc, exc, stack, root, files,
          file_hashes, duplicate_info, fp, log, io_errors, fs0>>

NoFile == [dir |-> <<>>, name |-> <<>>]

EmptyMap == [x \in {} |-> x]

(***************************************************************************)
(* Initial states: a tree under Directory holding at most MaxFiles files;  *)
(* the duplicate folder is missing or present, outside the tree (and then  *)
(* possibly not empty) or inside it.                                       *)
(***************************************************************************)
Init ==
  /\ duplicate_folder \in DupChoices
  /\ \E present \in SUBSET TreeSlots : \E dupThere \in BOOLEAN :
       \E fill \in DupFills(duplicate_folder) :
         /\ Cardinality(present) <= MaxFiles
         /\ dupThere => Parent(duplicate_folder) \in TreeDirs(present)
         /\ fill # {} => dupThere /\ duplicate_folder = DupOutside
         /\ dirs = TreeDirs(present) \cup (IF dupThere THEN {duplicate_folder} ELSE {})
         /\ \E c \in Contents :
              /\ fill = {} => c = ""
              /\ \E tree \in [present -> Contents] :
                   fs = [p \in present \cup fill |-> IF p \in fill THEN c ELSE tree[p]]
  /\ pc = "start"
  /\ exc = "none"
  /\ stack = <<>>
  /\ root = <<>>
  /\ files = <<>>
  /\ file_hashes = EmptyMap
  /\ duplicate_info = <<>>
  /\ fp = NoFile
  /\ log = <<>>
  /\ io_errors = 0
  /\ fs0 = fs

(***************************************************************************)
(* The path filters.                                                       *)
(***************************************************************************)
ignore_folders ==
  << <<"P","r","o","g","r","a","m"," ","f","i","l","e","s">>,
     <<"P","r","o","g","r","a","m"," ","f","i","l","e","s"," ","(","x","8","6",")">> >>

\* the ignored folder compared with the end of the path only
should_ignore_dir_Exact(directory) ==
  \E k \in 1..Len(ignore_folders) :
    EndsWith(Lower(directory), Lower(ignore_folders[k]))

should_ignore_dir(directory) ==
  \E k \in 1..Len(ignore_folders) :
    Contains(Lower(directory), Lower(ignore_folders[k]))

exclude_startswith == << <<".">>, <<"~">>, <<"_">> >>

is_hidden(filepath) ==
  LET parts == Split(filepath, Sep)
  IN  \E i \in 1..Len(parts) : \E k \in 1..Len(exclude_startswith) :
        StartsWith(parts[i], exclude_startswith[k])

exclude_extensions ==
  << <<"i","n","i">>, <<"r","d","p">>, <<"e","x","e">>,
     <<"m","a","r","k","e","r">>, <<"d","l","l">>, <<"l","i","b">>,
     <<"c","m","d">>, <<"j","s","o","n">>, <<"s","y","s">>,
     <<"t","m","p">>, <<"i","n","d","e","x">>, <<"m","a","r","k","e","r">> >>

has_excluded_extension(name) ==
  \E k \in 1..Len(exclude_extensions) : EndsWith(Lower(name), exclude_extensions[k])

(***************************************************************************)
(* calculate_md5: the digest of the file's content, or "fail" when the     *)
(* file cannot be opened or a read fails.                                  *)
(***************************************************************************)
\* md5.update never called: every readable file gets the digest of b""
calculate_md5_NoUpdate(path, readOk) ==
  IF readOk /\ path \in DOMAIN fs THEN MD5("") ELSE "fail"

\* the read error swallowed: the digest of the bytes read so far, none
calculate_md5_PartialDigest(path, readOk) ==
  IF readOk /\ path \in DOMAIN fs THEN MD5(fs[path]) ELSE MD5("")

calculate_md5(path, readOk) ==
  IF readOk /\ path \in DOMAIN fs THEN MD5(fs[path]) ELSE "fail"

(***************************************************************************)
(* The run: mkdir of the duplicate folder, then os.walk.                   *)
(***************************************************************************)
\* Path(duplicate_folder).mkdir(exist_ok=True), then the first os.walk step
Start ==
  /\ pc = "start"
  /\ IF duplicate_folder \in dirs
     THEN /\ pc' = "walk" /\ stack' = <<Directory>>
          /\ UNCHANGED <<dirs, exc>>
     ELSE IF Parent(duplicate_folder) \in dirs
     THEN /\ pc' = "walk" /\ stack' = <<Directory>>
          /\ dirs' = dirs \cup {duplicate_folder}
          /\ UNCHANGED exc
     ELSE /\ pc' = "raised" /\ exc' = "mkdir"
          /\ UNCHANGED <<dirs, stack>>
  /\ UNCHANGED <<fs, duplicate_folder, root, files, file_hashes,
                 duplicate_info, fp, log, io_errors, fs0>>

\* os.walk yields the next directory: its files and sub-directories are
\* listed now, in an order the file system chooses
WalkDir ==
  /\ pc = "walk" /\ files = <<>> /\ stack # <<>>
  /\ LET d == Head(stack)
     IN  /\ root' = d
         /\ \E fl \in Orders({p.name : p \in {q \in DOMAIN fs : q.dir = d}}) :
              files' = fl
         /\ \E dl \in Orders({c \in dirs : c # d /\ Parent(c) = d}) :
              stack' = dl \o Tail(stack)
  /\ UNCHANGED <<fs, dirs, duplicate_folder, pc, exc, file_hashes,
                 duplicate_info, fp, log, io_errors, fs0>>

\* os.walk is exhausted: find_and_move_duplicates returns
Finish ==
  /\ pc = "walk" /\ files = <<>> /\ stack = <<>>
  /\ pc' = "done"
  /\ UNCHANGED <<fs, dirs, duplicate_folder, exc, stack, root, files,
                 file_hashes, duplicate_info, fp, log, io_errors, fs0>>

(***************************************************************************)
(* The body of the loop over the files of a directory, one action per      *)
(* path through it.  file is the name os.walk listed, file_path is         *)
(* Path(root) / file.                                                      *)
(***************************************************************************)
file == Head(files)

file_path == [dir |-> root, name |-> file]

AtFile == pc = "walk" /\ files # <<>>

Event(kind, md5, new_path) ==
  [kind |-> kind, path |-> file_path, md5 |-> md5, new_path |-> new_path]

\* the file is logged and left: continue
Skip(kind, md5) ==
  /\ log' = Append(log, Event(kind, md5, NoFile))
  /\ files' = Tail(files)
  /\ UNCHANGED <<fs, dirs, duplicate_folder, pc, exc, stack, root,
                 file_hashes, duplicate_info, fs0>>

SkipIgnoredDir ==
  /\ AtFile
  /\ should_ignore_dir(root)
  /\ Skip("ignored_dir", "")
  /\ UNCHANGED <<fp, io_errors>>

SkipHidden ==
  /\ AtFile
  /\ ~should_ignore_dir(root)
  /\ is_hidden(file)
  /\ Skip("hidden", "")
  /\ UNCHANGED <<fp, io_errors>>

SkipExtension ==
  /\ AtFile
  /\ ~should_ignore_dir(root)
  /\ ~is_hidden(file)
  /\ has_excluded_extension(file)
  /\ Skip("extension", "")
  /\ UNCHANGED <<fp, io_errors>>

PassesFilters ==
  /\ AtFile
  /\ ~should_ignore_dir(root)
  /\ ~is_hidden(file)
  /\ ~has_excluded_extension(file)

\* an I/O error can be met while fewer than MaxErrors have been
CanFail == io_errors < MaxErrors

\* open(file_path, "rb") raises: the file is gone or cannot be read
SkipOpenFail ==
  /\ PassesFilters
  /\ file_path \in DOMAIN fs => CanFail
  /\ io_errors' = io_errors + (IF file_path \in DOMAIN fs THEN 1 ELSE 0)
  /\ Skip("open_fail", "")
  /\ UNCHANGED fp

\* whether the reads of calculate_md5 succeed
ReadOutcomes == IF CanFail THEN {TRUE, FALSE} ELSE {TRUE}

\* the continue left out: the failure is logged and 'fail' is indexed
SkipDigestFail_NoContinue ==
  /\ PassesFilters
  /\ file_path \in DOMAIN fs
  /\ CanFail
  /\ io_errors' = io_errors + 1
  /\ log' = Append(log, Event("md5_fail", "fail", NoFile))
  /\ file_hashes' = ("fail" :> file_path) @@ file_hashes
  /\ fp' = file_path
  /\ files' = Tail(files)
  /\ UNCHANGED <<fs, dirs, duplicate_folder, pc, exc, stack, root,
                 duplicate_info, fs0>>

\* the probe opens the file, then calculate_md5 returns 'fail'
SkipDigestFail ==
  /\ PassesFilters
  /\ file_path \in DOMAIN fs
  /\ \E readOk \in ReadOutcomes :
       LET file_md5 == calculate_md5(file_path, readOk)
       IN  /\ file_md5 = "fail"
           /\ Skip("md5_fail", file_md5)
           /\ io_errors' = io_errors + (IF readOk THEN 0 ELSE 1)
  /\ fp' = file_path

\* the digest is new: the file is the first seen with it
IndexFirst ==
  /\ PassesFilters
  /\ file_path \in DOMAIN fs
  /\ \E readOk \in ReadOutcomes :
       LET file_md5 == calculate_md5(file_path, readOk)
       IN  /\ file_md5 # "fail"
           /\ file_md5 \notin DOMAIN file_hashes
           /\ file_hashes' = (file_md5 :> file_path) @@ file_hashes
           /\ log' = Append(log, Event("indexed", file_md5, NoFile))
  /\ fp' = file_path
  /\ files' = Tail(files)
  /\ UNCHANGED <<fs, dirs, duplicate_folder, pc, exc, stack, root,
                 duplicate_info, io_errors, fs0>>

(***************************************************************************)
(* The digest is in file_hashes: the file is a duplicate.                  *)
(***************************************************************************)
\* Path.exists()
Exists(p) == p \in DOMAIN fs \/ PathStr(p) \in dirs

\* the loop left out: the first name is taken as it is
UniquePath_NoLoop(path, counter) == path

\* "if" for "while": one other name is tried, and taken as it is
UniquePath_Once(path, counter) ==
  IF Exists(path)
  THEN [dir  |-> duplicate_folder,
        name |-> Stem(path.name) \o <<"_">> \o Str(counter) \o Suffix(path.name)]
  ELSE path

\* the loop "while new_path.exists()", entered with counter = 1
RECURSIVE UniquePath(_, _)
UniquePath(path, counter) ==
  IF Exists(path)
  THEN UniquePath([dir  |-> duplicate_folder,
                   name |-> Stem(path.name) \o <<"_">> \o Str(counter)
                              \o Suffix(path.name)],
                  counter + 1)
  ELSE path

\* the values new_path takes in that loop, one per test of new_path.exists()
RECURSIVE UniquePathTrace(_, _)
UniquePathTrace(path, counter) ==
  IF Exists(path)
  THEN <<path>> \o
       UniquePathTrace([dir  |-> duplicate_folder,
                        name |-> Stem(path.name) \o <<"_">> \o Str(counter)
                                   \o Suffix(path.name)],
                       counter + 1)
  ELSE <<path>>

\* the destination computed in the scanned directory
new_path_in_root == [dir |-> root, name |-> Lower(file)]

\* new_path = duplicates_folder_path / file, file being file.lower() by now
new_path == [dir |-> duplicate_folder, name |-> Lower(file)]

\* the two paths of the record taken one for the other
DuplicateRecord_Swapped(original_path) ==
  [original_path  |-> PathStr(file_path),
   duplicate_path |-> PathStr(original_path),
   moved_to       |-> PathStr(new_path),
   file_extension |-> Suffix(file_path.name),
   folder_name    |-> BaseName(file_path.dir)]

\* the dictionary appended to duplicate_info (the two dates are left out)
DuplicateRecord(original_path) ==
  [original_path  |-> PathStr(original_path),
   duplicate_path |-> PathStr(file_path),
   moved_to       |-> PathStr(new_path),
   file_extension |-> Suffix(file_path.name),
   folder_name    |-> BaseName(file_path.dir)]

\* shutil.move(src, dst): os.rename, or else a copy to dst followed by the
\* removal of src.  "moved": it returns; "failed": it raises and nothing has
\* changed; "copied": the copy was made and the removal of src raised
shutil_move(src, dst, outcome) ==
  CASE outcome = "moved" ->
         [p \in (DOMAIN fs \ {src}) \cup {dst} |-> IF p = dst THEN fs[src] ELSE fs[p]]
    [] outcome = "copied" ->
         [p \in DOMAIN fs \cup {dst} |-> IF p = dst THEN fs[src] ELSE fs[p]]
    [] outcome = "failed" -> fs

IsDuplicate(file_md5) == file_md5 # "fail" /\ file_md5 \in DOMAIN file_hashes

\* file_path.stat() raises while the record is built: nothing catches it
DuplicateStatRaise ==
  /\ PassesFilters
  /\ file_path \in DOMAIN fs
  /\ \E readOk \in ReadOutcomes : IsDuplicate(calculate_md5(file_path, readOk))
  /\ CanFail
  /\ io_errors' = io_errors + 1
  /\ fp' = file_path
  /\ pc' = "raised"
  /\ exc' = "stat"
  /\ UNCHANGED <<fs, dirs, duplicate_folder, stack, root, files,
                 file_hashes, duplicate_info, log, fs0>>

\* the duplicate branch also stores the path of the duplicate in file_hashes
Relocate_Reindex(outcome, kind) ==
  /\ PassesFilters
  /\ file_path \in DOMAIN fs
  /\ outcome # "moved" => CanFail
  /\ io_errors' = io_errors + (IF outcome = "moved" THEN 0 ELSE 1)
  /\ \E readOk \in ReadOutcomes :
       LET file_md5 == calculate_md5(file_path, readOk)
           original_path == file_hashes[file_md5]
           final_path == UniquePath(new_path, 1)
       IN  /\ IsDuplicate(file_md5)
           /\ duplicate_info' =
                Append(duplicate_info, DuplicateRecord(original_path))
           /\ fs' = shutil_move(file_path, final_path, outcome)
           /\ log' = Append(log, Event(kind, file_md5, final_path))
           /\ file_hashes' = [file_hashes EXCEPT ![file_md5] = file_path]
  /\ fp' = file_path
  /\ files' = Tail(files)
  /\ UNCHANGED <<dirs, duplicate_folder, pc, exc, stack, root, fs0>>

\* the record is appended, a free name is looked for, the move is tried
Relocate(outcome, kind) ==
  /\ PassesFilters
  /\ file_path \in DOMAIN fs
  /\ outcome # "moved" => CanFail
  /\ io_errors' = io_errors + (IF outcome = "moved" THEN 0 ELSE 1)
  /\ \E readOk \in ReadOutcomes :
       LET file_md5 == calculate_md5(file_path, readOk)
           original_path == file_hashes[file_md5]
           final_path == UniquePath(new_path, 1)
       IN  /\ IsDuplicate(file_md5)
           /\ duplicate_info' =
                Append(duplicate_info, DuplicateRecord(original_path))
           /\ fs' = shutil_move(file_path, final_path, outcome)
           /\ log' = Append(log, Event(kind, file_md5, final_path))
  /\ fp' = file_path
  /\ files' = Tail(files)
  /\ UNCHANGED <<dirs, duplicate_folder, pc, exc, stack, root, file_hashes, fs0>>

\* shutil.move returns
DuplicateMoved == Relocate("moved", "moved")

\* shutil.move raises: the failure is logged
DuplicateMoveFailed ==
  \E outcome \in {"failed", "copied"} : Relocate(outcome, "move_failed")

Next ==
  \/ Start
  \/ WalkDir
  \/ Finish
  \/ SkipIgnoredDir
  \/ SkipHidden
  \/ SkipExtension
  \/ SkipOpenFail
  \/ SkipDigestFail
  \/ IndexFirst
  \/ DuplicateStatRaise
  \/ DuplicateMoved
  \/ DuplicateMoveFailed

Spec == Init /\ [][Next]_vars

(***************************************************************************)
(* Vocabulary of the properties.                                           *)
(***************************************************************************)
Last(s) == s[Len(s)]

\* the step logs an event
Logged == log' # log

\* the kinds of event of a file that was hashed and looked up in file_hashes
ProcessedKinds == {"indexed", "moved", "move_failed"}

\* the kinds of event of a file that was skipped
SkipKinds == {"ignored_dir", "hidden", "extension", "open_fail", "md5_fail"}

UnderRoot(p) == Directory \in Ancestors(p.dir)

InDuplicateFolder(f) == {p \in DOMAIN f : p.dir = duplicate_folder}

\* the first place of a path in the traversal, 0 when it was never listed
FirstIndex(p) ==
  IF \E i \in DOMAIN log : log[i].path = p
  THEN CHOOSE i \in DOMAIN log :
         log[i].path = p /\ \A j \in 1..(i - 1) : log[j].path # p
  ELSE 0

\* the relocation events, in order: one per record of duplicate_info
Relocations == SelectSeq(log, LAMBDA e : e.kind \in {"moved", "move_failed"})

(***************************************************************************)
(* C1 as stated: after a run, of every group of files under the root with  *)
(* identical content exactly one, the first in traversal order, remains    *)
(* at its original path and every other one is present by content in the   *)
(* duplicate folder.  Refuted by a run that skips a file of the group or   *)
(* fails to move one.                                                      *)
(***************************************************************************)
C1_OneOfEachContentRemains ==
  pc = "done" =>
    \A p \in DOMAIN fs0 : UnderRoot(p) =>
      LET G == {q \in DOMAIN fs0 : UnderRoot(q) /\ fs0[q] = fs0[p]}
          stay == {q \in G : q \in DOMAIN fs /\ fs[q] = fs0[q]}
      IN  /\ Cardinality(stay) = 1
          /\ \A q \in stay : \A r \in G : FirstIndex(q) <= FirstIndex(r)
          /\ \A q \in G \ stay :
               \E d \in InDuplicateFolder(fs) : fs[d] = fs0[q]

(***************************************************************************)
(* C1 as amended: after a run, of every group of files that were hashed    *)
(* to the same digest the first in traversal order is the one indexed and  *)
(* remains at its original path with its content, and every other file of  *)
(* the group whose move succeeded is present by content in the duplicate   *)
(* folder.                                                                 *)
(***************************************************************************)
C1_HashedDuplicatesRelocated ==
  pc = "done" =>
    \A i \in DOMAIN log : log[i].kind \in ProcessedKinds =>
      LET earlier == {j \in 1..(i - 1) : log[j].kind \in ProcessedKinds
                                          /\ log[j].md5 = log[i].md5}
      IN  /\ log[i].kind = "indexed" <=> earlier = {}
          /\ log[i].kind = "indexed" =>
               /\ log[i].path \in DOMAIN fs
               /\ log[i].path \in DOMAIN fs0
               /\ fs[log[i].path] = fs0[log[i].path]
               /\ MD5(fs[log[i].path]) = log[i].md5
          /\ log[i].kind = "moved" =>
               \E d \in InDuplicateFolder(fs) : MD5(fs[d]) = log[i].md5

\* a run has ended after a duplicate was moved
C1_Witness ==
  /\ pc = "done"
  /\ \E i \in DOMAIN log : log[i].kind = "moved"

(***************************************************************************)
(* C2: no relocation overwrites a file.  The destination of every          *)
(* shutil.move did not exist just before it, every file other than the     *)
(* one moved is where it was with the content it had, and the duplicate    *)
(* folder loses no content.                                                *)
(***************************************************************************)
C2_NoOverwrite ==
  [][ (Logged /\ Last(log').kind \in {"moved", "move_failed"}) =>
        LET e == Last(log')
        IN  /\ e.new_path \notin DOMAIN fs
            /\ \A p \in DOMAIN fs \ {e.path} : p \in DOMAIN fs' /\ fs'[p] = fs[p]
            /\ \A c \in Contents :
                 Cardinality({p \in InDuplicateFolder(fs') : fs'[p] = c})
                   >= Cardinality({p \in InDuplicateFolder(fs) : fs[p] = c}) ]_vars

\* a duplicate was moved to a name other than its own: its name was taken
C2_Witness ==
  \E i \in DOMAIN log :
    /\ log[i].kind = "moved"
    /\ log[i].new_path.name # Lower(log[i].path.name)
    /\ log[i].new_path \in DOMAIN fs

(***************************************************************************)
(* C3 as stated: the destination of a relocation is name.ext when that is  *)
(* free, and otherwise name_k.ext for the least k >= 1 that is free.       *)
(* Refuted: with a.txt and a_1.txt taken the code moves to a_1_2.txt.      *)
(***************************************************************************)
Numbered(path, k) ==
  [dir  |-> path.dir,
   name |-> Stem(path.name) \o <<"_">> \o Str(k) \o Suffix(path.name)]

FirstFree(path) ==
  IF ~Exists(path) THEN path
  ELSE LET N == Cardinality(DOMAIN fs) + 1
           k == CHOOSE n \in 1..N :
                  /\ ~Exists(Numbered(path, n))
                  /\ \A m \in 1..(n - 1) : Exists(Numbered(path, m))
       IN  Numbered(path, k)

C3_FirstFreeNumber ==
  [][ (Logged /\ Last(log').kind \in {"moved", "move_failed"}) =>
        Last(log').new_path = FirstFree(new_path) ]_vars

(***************************************************************************)
(* C4 as stated: the moved_to of the record of a relocation that           *)
(* succeeded is the path the file was moved to.  Refuted: the record is    *)
(* built before the loop that looks for a free name.                       *)
(***************************************************************************)
C4_MovedToIsFinalPath ==
  \A k \in DOMAIN Relocations :
    (k \in DOMAIN duplicate_info /\ Relocations[k].kind = "moved") =>
      duplicate_info[k].moved_to = PathStr(Relocations[k].new_path)

(***************************************************************************)
(* C5 as stated: no failure on a single file ends the run.  Refuted: an    *)
(* exception raised by file_path.stat() is not caught.                     *)
(***************************************************************************)
C5_NoFileErrorRaised == exc # "stat"

(***************************************************************************)
(* C6 as stated: after a relocation attempt the duplicate is at the        *)
(* destination only when the move succeeded and at its source only when    *)
(* it failed.  Refuted: shutil.move can fail after it has copied.          *)
(***************************************************************************)
C6_ExactlyOnePlace ==
  [][ (Logged /\ Last(log').kind \in {"moved", "move_failed"}) =>
        LET e == Last(log')
        IN  /\ e.kind = "moved" =>
                 e.new_path \in DOMAIN fs' /\ e.path \notin DOMAIN fs'
            /\ e.kind = "move_failed" =>
                 e.path \in DOMAIN fs' /\ e.new_path \notin DOMAIN fs' ]_vars

(***************************************************************************)
(* C7 as stated: a file with a path segment that starts with '.', '~' or   *)
(* '_' is never hashed, indexed or moved.  Refuted: is_hidden is given     *)
(* the file name only, so a file of a directory .git is processed.         *)
(***************************************************************************)
C7_HiddenSegmentExcluded ==
  \A i \in DOMAIN log :
    is_hidden(PathStr(log[i].path)) =>
      log[i].kind \notin ProcessedKinds

(***************************************************************************)
(* C8: directory exclusion is downward-closed.  A file whose directory,    *)
(* or a directory above it, is excluded by should_ignore_dir is skipped    *)
(* as being in an excluded directory.                                      *)
(***************************************************************************)
C8_ExclusionDownwardClosed ==
  \A i \in DOMAIN log :
    (\E a \in Ancestors(log[i].path.dir) : should_ignore_dir(a)) =>
      log[i].kind = "ignored_dir"

\* a file two levels below Program Files has been skipped
C8_Witness ==
  \E i \in DOMAIN log :
    /\ log[i].path.dir = DirPFApp
    /\ should_ignore_dir(DirPF)
    /\ log[i].kind = "ignored_dir"

(***************************************************************************)
(* C9: a skipped file leaves the index, the records and the files as       *)
(* they were.                                                              *)
(***************************************************************************)
C9_SkipChangesNothing ==
  [][ (Logged /\ Last(log').kind \in SkipKinds) =>
        UNCHANGED <<file_hashes, duplicate_info, fs>> ]_vars

\* a file was skipped whose content is that of an indexed file
C9_Witness ==
  \E i \in DOMAIN log :
    /\ log[i].kind \in SkipKinds
    /\ log[i].path \in DOMAIN fs
    /\ MD5(fs[log[i].path]) \in DOMAIN file_hashes
    /\ file_hashes[MD5(fs[log[i].path])] # log[i].path

(***************************************************************************)
(* C10: as long as no two of the files processed have the same digest,     *)
(* no record is appended and every file is where it was at the start.      *)
(***************************************************************************)
ProcessedPaths == {log[i].path : i \in {j \in DOMAIN log : log[j].kind \in ProcessedKinds}}

NoCollision ==
  /\ Cardinality(ProcessedPaths)
       = Cardinality({j \in DOMAIN log : log[j].kind \in ProcessedKinds})
  /\ ProcessedPaths \subseteq DOMAIN fs0
  /\ \A p, q \in ProcessedPaths : p # q => MD5(fs0[p]) # MD5(fs0[q])

C10_NoCollisionNoMove ==
  NoCollision => duplicate_info = <<>> /\ fs = fs0

\* a run has ended that processed two files of different digests
C10_Witness ==
  /\ pc = "done"
  /\ NoCollision
  /\ Cardinality(ProcessedPaths) >= 2

(***************************************************************************)
(* C11 as stated: each time the digest of a file is found in file_hashes   *)
(* one record, and only one, is appended to duplicate_info.  Refuted:      *)
(* when file_path.stat() raises, the run ends with no record appended.     *)
(***************************************************************************)
\* the step found the digest of the file in file_hashes
DigestFound ==
  /\ AtFile
  /\ \/ pc' = "raised"
     \/ Logged /\ Last(log').kind \in {"moved", "move_failed"}

C11_OneRecordPerDuplicate ==
  [][ DigestFound => Len(duplicate_info') = Len(duplicate_info) + 1 ]_vars

(***************************************************************************)
(* C12 as stated: no file is attempted twice; a file relocated into the    *)
(* duplicate folder is not processed again.  Refuted: a duplicate folder   *)
(* inside the tree is walked like any other directory.                     *)
(***************************************************************************)
C12_RelocatedNotProcessedAgain ==
  \A i, j \in DOMAIN log :
    (i < j /\ log[i].kind = "moved" /\ log[j].kind \in ProcessedKinds) =>
      log[j].path # log[i].new_path

(***************************************************************************)
(* C13 as stated: a duplicate whose own file name is free in the           *)
(* duplicate folder is placed there under that name.  Refuted: the name    *)
(* used is file.lower().                                                   *)
(***************************************************************************)
C13_OwnNameKept ==
  [][ (Logged /\ Last(log').kind = "moved") =>
        LET e == Last(log')
        IN  ~Exists([dir |-> duplicate_folder, name |-> e.path.name]) =>
              /\ e.new_path.dir = duplicate_folder
              /\ e.new_path.name = e.path.name ]_vars

(***************************************************************************)
(* C14 as stated: the creation of the duplicate folder succeeds for any    *)
(* destination path, and no move is attempted while the folder does not    *)
(* exist.  Refuted: mkdir raises when the parent of the path is missing.   *)
(***************************************************************************)
C14_FolderCreated ==
  /\ exc # "mkdir"
  /\ pc \in {"walk", "done"} => duplicate_folder \in dirs
  /\ Relocations # <<>> => duplicate_folder \in dirs

(***************************************************************************)
(* C15: file_hashes only grows.  No step changes or removes an entry, and  *)
(* a step that adds one adds the digest of the file being processed,       *)
(* which was not in file_hashes, with the path of that file.               *)
(***************************************************************************)
C15_IndexOnlyGrows ==
  [][ /\ \A d \in DOMAIN file_hashes :
           d \in DOMAIN file_hashes' /\ file_hashes'[d] = file_hashes[d]
      /\ file_hashes' # file_hashes =>
           /\ AtFile
           /\ file_path \in DOMAIN fs
           /\ MD5(fs[file_path]) \notin DOMAIN file_hashes
           /\ DOMAIN file_hashes' = DOMAIN file_hashes \cup {MD5(fs[file_path])}
           /\ file_hashes'[MD5(fs[file_path])] = file_path ]_vars

\* an entry of file_hashes is there after a duplicate of its file was found
C15_Witness ==
  /\ Relocations # <<>>
  /\ \A k \in DOMAIN Relocations :
       /\ Relocations[k].md5 \in DOMAIN file_hashes
       /\ file_hashes[Relocations[k].md5] # Relocations[k].path

(***************************************************************************)
(* C16: first seen wins.  The original_path of every record is the path    *)
(* of the first file of the traversal hashed to the digest, it is not the  *)
(* duplicate_path, and the file at original_path is never relocated: it    *)
(* is still there with the content it had at the start.                    *)
(***************************************************************************)
\* the place in the log of the first file hashed to the digest md5
FirstHashed(md5) ==
  CHOOSE i \in DOMAIN log :
    /\ log[i].kind \in ProcessedKinds /\ log[i].md5 = md5
    /\ \A j \in 1..(i - 1) : ~(log[j].kind \in ProcessedKinds /\ log[j].md5 = md5)

C16_FirstSeenIsOriginal ==
  /\ Len(duplicate_info) = Len(Relocations)
  /\ \A k \in DOMAIN duplicate_info :
       LET first == log[FirstHashed(Relocations[k].md5)].path
       IN  /\ duplicate_info[k].duplicate_path = PathStr(Relocations[k].path)
           /\ duplicate_info[k].original_path = PathStr(first)
           /\ duplicate_info[k].original_path # duplicate_info[k].duplicate_path
           /\ first \in DOMAIN fs /\ first \in DOMAIN fs0 /\ fs[first] = fs0[first]
           /\ \A i \in DOMAIN log :
                log[i].kind \in {"moved", "move_failed"} => log[i].path # first

\* a record was appended and the move of its duplicate succeeded
C16_Witness ==
  \E k \in DOMAIN duplicate_info :
    /\ k \in DOMAIN Relocations
    /\ Relocations[k].kind = "moved"
    /\ Relocations[k].path \notin DOMAIN fs

(***************************************************************************)
(* C17: calculate_md5 returns the digest of the content or 'fail' for      *)
(* every state of the file, 'fail' is no digest, no exception leaves it,   *)
(* and a file it returns 'fail' for is neither indexed nor moved.          *)
(***************************************************************************)
C17_DigestOrFail ==
  /\ \A p \in DOMAIN fs \cup {NoFile} : \A readOk \in BOOLEAN :
       calculate_md5(p, readOk) \in {"fail"} \cup {MD5(c) : c \in Contents}
  /\ \A c \in Contents : MD5(c) # "fail"
  /\ exc \in {"none", "mkdir", "stat"}
  /\ "fail" \notin DOMAIN file_hashes
  /\ \A i \in DOMAIN log :
       /\ log[i].md5 = "fail" <=> log[i].kind = "md5_fail"
       /\ log[i].kind \in ProcessedKinds =>
            (log[i].path \in DOMAIN fs0 => log[i].md5 = MD5(fs0[log[i].path]))
       /\ log[i].kind = "md5_fail" =>
            /\ log[i].path \in DOMAIN fs
            /\ \A d \in DOMAIN file_hashes : file_hashes[d] # log[i].path
            /\ \A k \in DOMAIN duplicate_info :
                 duplicate_info[k].duplicate_path # PathStr(log[i].path)

\* the digest of a file failed after a file of no bytes was indexed
C17_Witness ==
  /\ MD5("") \in DOMAIN file_hashes
  /\ \E i \in DOMAIN log : log[i].kind = "md5_fail"

(***************************************************************************)
(* C18: the loop that looks for a free name ends.  Whatever the duplicate  *)
(* folder holds, the names it tests are all different, all but the last    *)
(* exist, there are at most one more of them than there are files and      *)
(* directories, and the last, which it leaves with, does not exist.        *)
(***************************************************************************)
C18_LoopTerminates ==
  AtFile =>
    LET t == UniquePathTrace(new_path, 1)
    IN  /\ Len(t) <= Cardinality(DOMAIN fs) + Cardinality(dirs) + 1
        /\ \A i, j \in DOMAIN t : i # j => t[i] # t[j]
        /\ \A i \in 1..(Len(t) - 1) : Exists(t[i])
        /\ ~Exists(t[Len(t)])
        /\ UniquePath(new_path, 1) = t[Len(t)]

\* the loop has to go round twice: a.txt and a_1.txt are taken
C18_Witness ==
  /\ AtFile
  /\ Len(UniquePathTrace(new_path, 1)) = 3

(***************************************************************************)
(* C19 as stated: the handle the probe opened on a file is closed before   *)
(* the file is moved.  Refuted: nothing closes fp; it is open on the       *)
(* duplicate while shutil.move runs, and after.                            *)
(***************************************************************************)
C19_ProbeClosedBeforeMove ==
  [][ (Logged /\ Last(log').kind \in {"moved", "move_failed"}) =>
        fp' # Last(log').path ]_vars

====
